---- MODULE Spec2Model ----
(***************************************************************************)
(* A model of the thread-pool programs of the multi-threading tutorial:    *)
(* new_method, loop_new_method and executor_map (initial_concepts.py) and  *)
(* get_images_threaded (real-world_example.py), each a caller thread that  *)
(* drives a concurrent.futures.ThreadPoolExecutor inside a `with` block,   *)
(* together with the pool's workers, its work queue and its futures.       *)
(* The inputs (the list of seconds / URLs, the worker count) are drawn     *)
(* from small sets; a negative value stands for an argument on which the   *)
(* work function raises (time.sleep of a negative length, an unreachable   *)
(* URL).                                                                   *)
(***************************************************************************)
EXTENDS Integers, Sequences, FiniteSets, TLC

\* ---------------------------------------------------------------- bounds
MaxItems == 3
MaxWorkers == 2
MaxRejected == 1

\* The threads old_method and loop create.
OldMethodThreads == 2
LoopThreads == 10

\* The arguments a work item may carry: a number of seconds, or its negative,
\* on which the work function raises.
Seconds == {x \in -MaxItems..MaxItems : x # 0}

\* The submission indices a run can hand out.
Idx == 1..(MaxItems + MaxRejected)

VARIABLES
    prog,         \* which caller function runs
    items,        \* second_list / img_urls: the arguments, in input order
    max_workers,  \* the pool's worker count
    wait,         \* the `wait` argument of the shutdown the caller makes
    pc,           \* the caller's position
    nsub,         \* number of submission indices handed out so far
    cursor,       \* the caller's position in its retrieval loop
    shutdown,     \* the pool's _shutdown flag
    work_queue,   \* the pool's FIFO queue of submitted, not yet dequeued items
    fstate,       \* the state of each future
    outcome,      \* the recorded Outcome of each future
    execCount,    \* how many times each item's work function was started
    worker,       \* each worker thread: what it is doing
    completed,    \* history: the futures in the order they completed
    ac,           \* the as_completed generator's state
    yielded,      \* the futures the retrieval iterator handed to the caller
    results,      \* what the caller retrieved, in retrieval order
    exc,          \* the item whose error is propagating in the caller, or 0
    rejected,     \* number of Submit calls refused with PoolClosedError
    atShutdown,   \* history: the items queued or in flight when shutdown was called
    submitters,   \* pool_submitters: the submission lock and the submitting threads
    thread        \* old_method / loop: the state of each thread they create

vars == <<prog, items, max_workers, wait, pc, nsub, cursor, shutdown,
          work_queue, fstate, outcome, execCount, worker, completed, ac,
          yielded, results, exc, rejected, atShutdown, submitters, thread>>

config == <<prog, items, max_workers, wait>>

\* The state only pool_submitters, old_method and loop use.
aux == <<submitters, thread>>

\* ---------------------------------------------------------------- helpers
NoOutcome == [tag |-> "none", val |-> 0]

Range(s) == {s[j] : j \in DOMAIN s}

\* Position of x in the sequence s, 0 when absent.
Pos(s, x) == IF x \in Range(s) THEN CHOOSE j \in DOMAIN s : s[j] = x ELSE 0

Reverse(s) == [j \in 1..Len(s) |-> s[Len(s) + 1 - j]]

\* All orderings of the finite set S.
Orderings(S) ==
    {s \in [1..Cardinality(S) -> S] : \A a, b \in 1..Cardinality(S) : a # b => s[a] # s[b]}

SrcProgs == {"new_method", "loop_new_method", "executor_map", "get_images_threaded"}

\* old_method and loop create their threads by hand and use no pool.
ThreadProgs == {"old_method", "loop"}

\* The callers that use a pool.
PoolProgs == SrcProgs \cup {"pool_api", "pool_submitters"}

Progs == PoolProgs \cup ThreadProgs

\* The number of threads the caller creates by hand.
NThreads == IF prog = "old_method" THEN OldMethodThreads ELSE LoopThreads

\* The threads of pool_submitters that submit concurrently.
Submitters == 1..2

\* The input lists: like second_list = [10, 9, ..., 1], n distinct durations in
\* descending order, each of which may be replaced by an argument that raises.
ItemLists ==
    UNION {{s \in [1..n -> Seconds] : \A i \in 1..n : s[i] \in {n + 1 - i, -(n + 1 - i)}} :
           n \in 1..MaxItems}

\* ---------------------------------------------------------------- work functions
\* do_something_new(seconds): sleeps, then returns a string built from seconds;
\* time.sleep raises ValueError on a negative length.
do_something_new(seconds) ==
    IF seconds < 0 THEN [tag |-> "fail", val |-> seconds]
                   ELSE [tag |-> "ok", val |-> seconds]

\* download_image(img_url): fetches and writes the file, returns None; an
\* unreachable URL (negative) makes requests.get raise.
download_image(img_url) ==
    IF img_url < 0 THEN [tag |-> "fail", val |-> img_url]
                   ELSE [tag |-> "ok", val |-> 0]

WorkFn(x) == IF prog = "get_images_threaded" THEN download_image(x)
                                             ELSE do_something_new(x)

\* The argument of the item with submission index i (a submission beyond the
\* input list carries the first argument again).
Arg(i) == IF i \in DOMAIN items THEN items[i] ELSE items[1]

\* ---------------------------------------------------------------- initial state
\* The state right after `with ThreadPoolExecutor() as tpe:` has built the pool:
\* nothing submitted, every worker of the pool waiting on the empty queue.
Init ==
    /\ prog \in Progs
    /\ items \in ItemLists \cup {<<>>}
    /\ items = <<>> <=> prog \in ThreadProgs
    /\ prog = "new_method" => Len(items) = 2
    /\ max_workers \in 1..MaxWorkers
    /\ prog \in ThreadProgs => max_workers = 1
    /\ wait \in BOOLEAN
    /\ prog # "pool_api" => wait = TRUE
    /\ pc = CASE prog \in ThreadProgs -> "start"
            [] prog = "pool_submitters" -> "spawned"
            [] OTHER -> "submit"
    /\ nsub = 0
    /\ cursor = 0
    /\ shutdown = FALSE
    /\ work_queue = <<>>
    /\ fstate = [i \in Idx |-> "NONE"]
    /\ outcome = [i \in Idx |-> NoOutcome]
    /\ execCount = [i \in Idx |-> 0]
    /\ worker = [w \in 1..MaxWorkers |->
                   [st |-> IF prog \in PoolProgs /\ w <= max_workers THEN "idle" ELSE "absent",
                    item |-> 0]]
    /\ completed = <<>>
    /\ ac = [installed |-> FALSE, initial |-> {}, pending |-> {},
             finished |-> <<>>, waiter |-> <<>>, ended |-> FALSE]
    /\ yielded = <<>>
    /\ results = <<>>
    /\ exc = 0
    /\ rejected = 0
    /\ atShutdown = {}
    /\ submitters =
          [lock |-> 0, by |-> <<>>,
           th |-> [t \in Submitters |->
                     LET share == IF prog # "pool_submitters" THEN 0
                                  ELSE IF t = 1 THEN (Len(items) + 1) \div 2
                                  ELSE Len(items) \div 2
                     IN [pc |-> IF share = 0 THEN "done" ELSE "idle",
                         idx |-> 0, left |-> share]]]
    /\ thread = [t \in 1..LoopThreads |-> "new"]

\* ---------------------------------------------------------------- the pool
\* Submit changed to wait for an idle worker before it takes the item.
Submit_needs_idle ==
    /\ \E w \in 1..max_workers : worker[w].st = "idle"
    /\ IF shutdown
       THEN /\ rejected' = rejected + 1
            /\ UNCHANGED <<nsub, work_queue, fstate>>
       ELSE /\ nsub' = nsub + 1
            /\ work_queue' = Append(work_queue, nsub + 1)
            /\ fstate' = [fstate EXCEPT ![nsub + 1] = "PENDING"]
            /\ UNCHANGED rejected

\* Submit changed to ignore the pool's shutdown flag.
Submit_after_shutdown ==
    /\ nsub' = nsub + 1
    /\ work_queue' = Append(work_queue, nsub + 1)
    /\ fstate' = [fstate EXCEPT ![nsub + 1] = "PENDING"]
    /\ UNCHANGED rejected

\* Submit changed to hand out the index and the future without queueing the item.
Submit_lost ==
    IF shutdown
    THEN /\ rejected' = rejected + 1
         /\ UNCHANGED <<nsub, work_queue, fstate>>
    ELSE /\ nsub' = nsub + 1
         /\ fstate' = [fstate EXCEPT ![nsub + 1] = "PENDING"]
         /\ UNCHANGED <<work_queue, rejected>>

\* tpe.submit(fn, arg): refused once the pool is shut down; otherwise the item
\* gets the next submission index, a pending future, and joins the queue.
Submit ==
    IF shutdown
    THEN /\ rejected' = rejected + 1
         /\ UNCHANGED <<nsub, work_queue, fstate>>
    ELSE /\ nsub' = nsub + 1
         /\ work_queue' = Append(work_queue, nsub + 1)
         /\ fstate' = [fstate EXCEPT ![nsub + 1] = "PENDING"]
         /\ UNCHANGED rejected

\* Dequeue changed to start the head item without taking it off the queue or
\* marking its future as running.
Dequeue_peek(w) ==
    /\ worker[w].st = "idle"
    /\ work_queue # <<>>
    /\ fstate[Head(work_queue)] = "PENDING"
    /\ LET i == Head(work_queue) IN
         /\ execCount' = [execCount EXCEPT ![i] = @ + 1]
         /\ worker' = [worker EXCEPT ![w] = [st |-> "busy", item |-> i]]
    /\ UNCHANGED <<work_queue, fstate>>
    /\ UNCHANGED <<config, pc, nsub, cursor, shutdown, outcome, completed, ac,
                   yielded, results, exc, rejected>>
    /\ UNCHANGED <<atShutdown, aux>>

\* Dequeue changed to take the item submitted last.
Dequeue_lifo(w) ==
    /\ worker[w].st = "idle"
    /\ work_queue # <<>>
    /\ fstate[work_queue[Len(work_queue)]] = "PENDING"
    /\ LET i == work_queue[Len(work_queue)] IN
         /\ work_queue' = SubSeq(work_queue, 1, Len(work_queue) - 1)
         /\ fstate' = [fstate EXCEPT ![i] = "RUNNING"]
         /\ execCount' = [execCount EXCEPT ![i] = @ + 1]
         /\ worker' = [worker EXCEPT ![w] = [st |-> "busy", item |-> i]]
    /\ UNCHANGED <<config, pc, nsub, cursor, shutdown, outcome, completed, ac,
                   yielded, results, exc, rejected>>
    /\ UNCHANGED <<atShutdown, aux>>

\* Dequeue changed so that only the first worker takes items.
Dequeue_first_worker(w) ==
    /\ w = 1
    /\ worker[w].st = "idle"
    /\ work_queue # <<>>
    /\ fstate[Head(work_queue)] = "PENDING"
    /\ LET i == Head(work_queue) IN
         /\ work_queue' = Tail(work_queue)
         /\ fstate' = [fstate EXCEPT ![i] = "RUNNING"]
         /\ execCount' = [execCount EXCEPT ![i] = @ + 1]
         /\ worker' = [worker EXCEPT ![w] = [st |-> "busy", item |-> i]]
    /\ UNCHANGED <<config, pc, nsub, cursor, shutdown, outcome, completed, ac,
                   yielded, results, exc, rejected>>
    /\ UNCHANGED <<atShutdown, aux>>

\* Dequeue changed so that the workers take no more items once the pool is shut
\* down.
Dequeue_until_shutdown(w) ==
    /\ ~shutdown
    /\ worker[w].st = "idle"
    /\ work_queue # <<>>
    /\ fstate[Head(work_queue)] = "PENDING"
    /\ LET i == Head(work_queue) IN
         /\ work_queue' = Tail(work_queue)
         /\ fstate' = [fstate EXCEPT ![i] = "RUNNING"]
         /\ execCount' = [execCount EXCEPT ![i] = @ + 1]
         /\ worker' = [worker EXCEPT ![w] = [st |-> "busy", item |-> i]]
    /\ UNCHANGED <<config, pc, nsub, cursor, shutdown, outcome, completed, ac,
                   yielded, results, exc, rejected>>
    /\ UNCHANGED <<atShutdown, aux>>

\* A worker takes the item at the head of the queue and starts running it.
Dequeue(w) ==
    /\ worker[w].st = "idle"
    /\ work_queue # <<>>
    /\ fstate[Head(work_queue)] = "PENDING"
    /\ LET i == Head(work_queue) IN
         /\ work_queue' = Tail(work_queue)
         /\ fstate' = [fstate EXCEPT ![i] = "RUNNING"]
         /\ execCount' = [execCount EXCEPT ![i] = @ + 1]
         /\ worker' = [worker EXCEPT ![w] = [st |-> "busy", item |-> i]]
    /\ UNCHANGED <<config, pc, nsub, cursor, shutdown, outcome, completed, ac,
                   yielded, results, exc, rejected>>
    /\ UNCHANGED <<atShutdown, aux>>

\* A worker takes a cancelled item from the queue: it is not run.
SkipCancelled(w) ==
    /\ worker[w].st = "idle"
    /\ work_queue # <<>>
    /\ fstate[Head(work_queue)] = "CANCELLED"
    /\ work_queue' = Tail(work_queue)
    /\ fstate' = [fstate EXCEPT ![Head(work_queue)] = "CANCELLED_AND_NOTIFIED"]
    /\ UNCHANGED <<config, pc, nsub, cursor, shutdown, outcome, execCount, worker,
                   completed, ac, yielded, results, exc, rejected>>
    /\ UNCHANGED <<atShutdown, aux>>

\* The work function returns or raises: the worker records the Outcome in the
\* future, notifies the as_completed waiter installed on it, and is idle again.
Finish(w) ==
    /\ worker[w].st = "busy"
    /\ LET i == worker[w].item IN
         /\ outcome' = [outcome EXCEPT ![i] = WorkFn(Arg(i))]
         /\ fstate' = [fstate EXCEPT ![i] = "FINISHED"]
         /\ completed' = Append(completed, i)
         /\ ac' = IF ac.installed /\ i \in ac.pending
                  THEN [ac EXCEPT !.waiter = Append(@, i)]
                  ELSE ac
    /\ worker' = [worker EXCEPT ![w] = [st |-> "idle", item |-> 0]]
    /\ UNCHANGED <<config, pc, nsub, cursor, shutdown, work_queue, execCount,
                   yielded, results, exc, rejected>>
    /\ UNCHANGED <<atShutdown, aux>>

\* Terminate changed to leave at shutdown whatever is still queued.
Terminate_nodrain(w) ==
    /\ worker[w].st = "idle"
    /\ shutdown
    /\ worker' = [worker EXCEPT ![w] = [st |-> "exited", item |-> 0]]
    /\ UNCHANGED <<config, pc, nsub, cursor, shutdown, work_queue, fstate, outcome,
                   execCount, completed, ac, yielded, results, exc, rejected>>
    /\ UNCHANGED <<atShutdown, aux>>

\* A worker leaves its loop: the pool is shut down and the queue is drained.
Terminate(w) ==
    /\ worker[w].st = "idle"
    /\ shutdown
    /\ work_queue = <<>>
    /\ worker' = [worker EXCEPT ![w] = [st |-> "exited", item |-> 0]]
    /\ UNCHANGED <<config, pc, nsub, cursor, shutdown, work_queue, fstate, outcome,
                   execCount, completed, ac, yielded, results, exc, rejected>>
    /\ UNCHANGED <<atShutdown, aux>>

\* AfterSubmit changed so that get_images_threaded iterates over the results of
\* executor.map as executor_map does.
AfterSubmit_consume ==
    CASE prog = "new_method" -> "result"
      [] prog = "loop_new_method" -> "as_completed"
      [] prog \in {"executor_map", "get_images_threaded"} -> "map_iter"
      [] OTHER -> "exit"

\* ---------------------------------------------------------------- the callers
\* Where each caller goes once it has submitted all its items.
AfterSubmit ==
    CASE prog = "new_method" -> "result"
      [] prog = "loop_new_method" -> "as_completed"
      [] prog = "executor_map" -> "map_iter"
      [] OTHER -> "exit"

\* One submission of the caller: tpe.submit in new_method and in the list
\* comprehension of loop_new_method, and each submit tpe.map makes in
\* executor_map and get_images_threaded.
CallSubmit ==
    /\ pc = "submit"
    /\ Submit
    /\ pc' = IF nsub + 1 = Len(items) THEN AfterSubmit ELSE "submit"
    /\ UNCHANGED <<config, cursor, shutdown, outcome, execCount, worker, completed,
                   ac, yielded, results, exc>>
    /\ UNCHANGED <<atShutdown, aux>>

\* The items that are queued or in flight.
InFlight == {i \in 1..nsub : fstate[i] \in {"PENDING", "RUNNING"}}

\* Where the caller is when its shutdown call has returned.
AfterShutdown == IF prog = "pool_api" THEN "late_submit"
                 ELSE IF exc = 0 THEN "done" ELSE "raised"

\* ExitWith changed to shutdown(wait=False): the caller does not join the workers.
ExitWith_nowait ==
    /\ pc = "exit"
    /\ prog \in SrcProgs
    /\ shutdown' = TRUE
    /\ pc' = AfterShutdown
    /\ atShutdown' = InFlight
    /\ UNCHANGED aux
    /\ UNCHANGED <<config, nsub, cursor, work_queue, fstate, outcome, execCount,
                   worker, completed, ac, yielded, results, exc, rejected>>

\* Leaving the `with` block, normally or on an error: the pool's __exit__ calls
\* shutdown(wait=True), which sets the flag and then joins the workers.
ExitWith ==
    /\ pc = "exit"
    /\ prog \in SrcProgs
    /\ shutdown' = TRUE
    /\ pc' = "join"
    /\ UNCHANGED <<config, nsub, cursor, work_queue, fstate, outcome, execCount,
                   worker, completed, ac, yielded, results, exc, rejected>>
    /\ atShutdown' = InFlight
    /\ UNCHANGED aux

\* shutdown(wait=True) returns when every worker thread has been joined.
Join ==
    /\ pc = "join"
    /\ \A w \in 1..max_workers : worker[w].st = "exited"
    /\ pc' = AfterShutdown
    /\ UNCHANGED <<config, nsub, cursor, shutdown, work_queue, fstate, outcome,
                   execCount, worker, completed, ac, yielded, results, exc, rejected>>
    /\ UNCHANGED <<atShutdown, aux>>

\* result changed to run the work again on every retrieval.
result_reexec(i) ==
    /\ fstate[i] = "FINISHED"
    /\ results' = Append(results, [idx |-> i, out |-> outcome[i]])
    /\ execCount' = [execCount EXCEPT ![i] = @ + 1]
    /\ UNCHANGED outcome

\* future.result(): waits until the future is done and hands its Outcome to the
\* caller (the value, or the captured error); it never runs the work again.
result(i) ==
    /\ fstate[i] = "FINISHED"
    /\ results' = Append(results, [idx |-> i, out |-> outcome[i]])
    /\ UNCHANGED <<outcome, execCount>>

\* Raises changed to swallow the captured error.
Raises_never(i) == FALSE

\* Whether retrieving future i raises its captured error.
Raises(i) == outcome[i].tag = "fail"

\* new_method: print(future_1.result()); print(future_2.result()).
NewMethodResult ==
    /\ pc = "result"
    /\ LET i == cursor + 1 IN
         /\ result(i)
         /\ cursor' = i
         /\ exc' = IF Raises(i) THEN i ELSE exc
         /\ pc' = IF Raises(i) \/ i = nsub THEN "exit" ELSE "result"
    /\ UNCHANGED <<config, nsub, shutdown, work_queue, fstate, worker, completed,
                   ac, yielded, rejected>>
    /\ UNCHANGED <<atShutdown, aux>>

\* as_completed(futures) is entered: the futures already done are taken, in no
\* particular order (they come out of a set); a waiter is installed on the rest.
AcStart ==
    /\ pc = "as_completed"
    /\ LET fin == {i \in 1..nsub : fstate[i] \in {"FINISHED", "CANCELLED_AND_NOTIFIED"}} IN
         \E order \in Orderings(fin) :
             ac' = [installed |-> TRUE, initial |-> fin, pending |-> (1..nsub) \ fin,
                    finished |-> order, waiter |-> <<>>, ended |-> FALSE]
    /\ pc' = "ac_loop"
    /\ UNCHANGED <<config, nsub, cursor, shutdown, work_queue, fstate, outcome,
                   execCount, worker, completed, yielded, results, exc, rejected>>
    /\ UNCHANGED <<atShutdown, aux>>

\* AcYield changed so that an error raised in the loop leaves the function at
\* once, as it would without the `with` block.
AcYield_noexit ==
    /\ pc = "ac_loop"
    /\ ac.finished # <<>>
    /\ LET f == Head(ac.finished) IN
         /\ result(f)
         /\ yielded' = Append(yielded, f)
         /\ exc' = IF Raises(f) THEN f ELSE exc
         /\ pc' = IF Raises(f) THEN "raised" ELSE "ac_loop"
         /\ ac' = [ac EXCEPT !.finished = Tail(@), !.pending = @ \ {f},
                             !.installed = ~Raises(f)]
    /\ UNCHANGED <<config, nsub, cursor, shutdown, work_queue, fstate, worker,
                   completed, rejected>>
    /\ UNCHANGED <<atShutdown, aux>>

\* AcYield changed so that an error raised in the loop cancels the futures that
\* have not started.
AcYield_cancel ==
    /\ pc = "ac_loop"
    /\ ac.finished # <<>>
    /\ LET f == Head(ac.finished) IN
         /\ result(f)
         /\ yielded' = Append(yielded, f)
         /\ exc' = IF Raises(f) THEN f ELSE exc
         /\ pc' = IF Raises(f) THEN "exit" ELSE "ac_loop"
         /\ ac' = [ac EXCEPT !.finished = Tail(@), !.pending = @ \ {f},
                             !.installed = ~Raises(f)]
         /\ fstate' = IF Raises(f)
                      THEN [j \in Idx |-> IF fstate[j] = "PENDING" THEN "CANCELLED"
                                                                 ELSE fstate[j]]
                      ELSE fstate
    /\ UNCHANGED <<config, nsub, cursor, shutdown, work_queue, worker,
                   completed, rejected>>
    /\ UNCHANGED <<atShutdown, aux>>

\* as_completed yields the next finished future and the loop body prints
\* future.result(); an error raised there leaves the loop and closes the generator.
AcYield ==
    /\ pc = "ac_loop"
    /\ ac.finished # <<>>
    /\ LET f == Head(ac.finished) IN
         /\ result(f)
         /\ yielded' = Append(yielded, f)
         /\ exc' = IF Raises(f) THEN f ELSE exc
         /\ pc' = IF Raises(f) THEN "exit" ELSE "ac_loop"
         /\ ac' = [ac EXCEPT !.finished = Tail(@), !.pending = @ \ {f},
                             !.installed = ~Raises(f)]
    /\ UNCHANGED <<config, nsub, cursor, shutdown, work_queue, fstate, worker,
                   completed, rejected>>
    /\ UNCHANGED <<atShutdown, aux>>

\* AcWait changed to take the finished futures in the reverse of the order in
\* which they finished.
AcWait_reversed ==
    /\ pc = "ac_loop"
    /\ ac.finished = <<>>
    /\ ac.pending # {}
    /\ ac.waiter # <<>>
    /\ ac' = [ac EXCEPT !.finished = Reverse(ac.waiter), !.waiter = <<>>]
    /\ UNCHANGED <<config, pc, nsub, cursor, shutdown, work_queue, fstate, outcome,
                   execCount, worker, completed, yielded, results, exc, rejected>>
    /\ UNCHANGED <<atShutdown, aux>>

\* as_completed has nothing left to yield and waits for the waiter's event: it
\* takes the futures that finished meanwhile, in the order they finished.
AcWait ==
    /\ pc = "ac_loop"
    /\ ac.finished = <<>>
    /\ ac.pending # {}
    /\ ac.waiter # <<>>
    /\ ac' = [ac EXCEPT !.finished = ac.waiter, !.waiter = <<>>]
    /\ UNCHANGED <<config, pc, nsub, cursor, shutdown, work_queue, fstate, outcome,
                   execCount, worker, completed, yielded, results, exc, rejected>>
    /\ UNCHANGED <<atShutdown, aux>>

\* AcEnd changed to end the sequence as soon as nothing is ready to be yielded.
AcEnd_early ==
    /\ pc = "ac_loop"
    /\ ac.finished = <<>>
    /\ ac' = [ac EXCEPT !.ended = TRUE, !.installed = FALSE]
    /\ pc' = "exit"
    /\ UNCHANGED <<config, nsub, cursor, shutdown, work_queue, fstate, outcome,
                   execCount, worker, completed, yielded, results, exc, rejected>>
    /\ UNCHANGED <<atShutdown, aux>>

\* as_completed signals end-of-sequence: no future is pending any more.
AcEnd ==
    /\ pc = "ac_loop"
    /\ ac.finished = <<>>
    /\ ac.pending = {}
    /\ ac' = [ac EXCEPT !.ended = TRUE, !.installed = FALSE]
    /\ pc' = "exit"
    /\ UNCHANGED <<config, nsub, cursor, shutdown, work_queue, fstate, outcome,
                   execCount, worker, completed, yielded, results, exc, rejected>>
    /\ UNCHANGED <<atShutdown, aux>>

\* MapPick changed to hand out the futures as they complete.
MapPick_completion ==
    LET left == {j \in DOMAIN completed : completed[j] \notin Range(yielded)} IN
      IF left = {} THEN cursor + 1
      ELSE completed[CHOOSE j \in left : \A l \in left : j <= l]

\* The future the iterator of tpe.map hands out next: the first one not yet
\* handed out, in submission order.
MapPick == cursor + 1

\* MapCancel changed to mark every later future cancelled, whatever its state.
MapCancel_all(i) ==
    [j \in Idx |-> IF j > i /\ fstate[j] # "NONE" THEN "CANCELLED" ELSE fstate[j]]

\* The futures' states after the iterator of tpe.map ended on the error of
\* future i: the futures after i that have not started are cancelled.
MapCancel(i) ==
    [j \in Idx |-> IF j > i /\ fstate[j] = "PENDING" THEN "CANCELLED" ELSE fstate[j]]

\* executor_map: `for future in futures: print(future)` over the iterator of
\* tpe.map, which waits for the next future in submission order and yields its
\* result; when that raises, the iterator cancels what has not started.
MapNext ==
    /\ pc = "map_iter"
    /\ LET i == MapPick IN
         /\ result(i)
         /\ yielded' = Append(yielded, i)
         /\ cursor' = cursor + 1
         /\ exc' = IF Raises(i) THEN i ELSE exc
         /\ fstate' = IF Raises(i) THEN MapCancel(i) ELSE fstate
         /\ pc' = IF Raises(i) \/ cursor + 1 = nsub THEN "exit" ELSE "map_iter"
    /\ UNCHANGED <<config, nsub, shutdown, work_queue, worker, completed, ac, rejected>>
    /\ UNCHANGED <<atShutdown, aux>>

\* ---------------------------------------------------------------- pool_api
\* A caller that uses the operations of the pool the programs above never use:
\* Shutdown(wait) with either value of wait, Submit after Shutdown, and Get of
\* the same future twice.
ApiShutdown ==
    /\ pc = "exit"
    /\ prog = "pool_api"
    /\ shutdown' = TRUE
    /\ pc' = IF wait THEN "join" ELSE "late_submit"
    /\ UNCHANGED <<config, nsub, cursor, work_queue, fstate, outcome, execCount,
                   worker, completed, ac, yielded, results, exc, rejected>>
    /\ atShutdown' = InFlight
    /\ UNCHANGED aux

\* Submit is attempted after Shutdown was called.
LateSubmit ==
    /\ pc = "late_submit"
    /\ rejected < MaxRejected
    /\ Submit
    /\ pc' = IF rejected + 1 >= MaxRejected THEN "get" ELSE "late_submit"
    /\ UNCHANGED <<config, cursor, shutdown, outcome, execCount, worker, completed,
                   ac, yielded, results, exc>>
    /\ UNCHANGED <<atShutdown, aux>>

\* Future.Get(), twice per future: futures 1, 1, 2, 2, ...; a failure Outcome is
\* returned to the caller as an error value.
ApiGet ==
    /\ pc = "get"
    /\ LET i == (cursor \div 2) + 1 IN
         /\ i <= nsub
         /\ result(i)
    /\ cursor' = cursor + 1
    /\ pc' = IF cursor + 1 = 2 * nsub THEN "done" ELSE "get"
    /\ UNCHANGED <<config, nsub, shutdown, work_queue, fstate, worker, completed,
                   ac, yielded, exc, rejected>>
    /\ UNCHANGED <<atShutdown, aux>>

\* ---------------------------------------------------------------- pool_submitters
\* Two threads submit to one pool at the same time, each its share of the items.
\* Submit holds the pool's lock while it reads the index counter, creates the
\* future and queues the item.
PoolUnchanged ==
    UNCHANGED <<config, pc, cursor, shutdown, outcome, execCount, worker, completed,
                ac, yielded, results, exc, rejected, atShutdown, thread>>

\* SubAcquire changed to enter Submit without taking the lock.
SubAcquire_nolock(t) ==
    /\ submitters.th[t].pc = "idle"
    /\ submitters' = [submitters EXCEPT !.th[t].pc = "locked"]
    /\ PoolUnchanged
    /\ UNCHANGED <<nsub, work_queue, fstate>>

\* A submitting thread takes the pool's lock.
SubAcquire(t) ==
    /\ submitters.th[t].pc = "idle"
    /\ submitters.lock = 0
    /\ submitters' = [submitters EXCEPT !.lock = t, !.th[t].pc = "locked"]
    /\ PoolUnchanged
    /\ UNCHANGED <<nsub, work_queue, fstate>>

\* Inside Submit: the next submission index is read.
SubRead(t) ==
    /\ submitters.th[t].pc = "locked"
    /\ submitters' = [submitters EXCEPT !.th[t].pc = "read", !.th[t].idx = nsub + 1]
    /\ PoolUnchanged
    /\ UNCHANGED <<nsub, work_queue, fstate>>

\* Inside Submit: the index is taken, the future created pending, the item
\* queued; the lock is released and Submit returns.
SubWrite(t) ==
    /\ submitters.th[t].pc = "read"
    /\ LET i == submitters.th[t].idx
           left == submitters.th[t].left - 1 IN
         /\ nsub' = i
         /\ fstate' = [fstate EXCEPT ![i] = "PENDING"]
         /\ work_queue' = Append(work_queue, i)
         /\ submitters' = [submitters EXCEPT
                             !.lock = 0,
                             !.by = Append(@, t),
                             !.th[t] = [pc |-> IF left = 0 THEN "done" ELSE "idle",
                                        idx |-> 0, left |-> left]]
    /\ PoolUnchanged

SubmitterStep(t) ==
    \/ SubAcquire(t)
    \/ SubRead(t)
    \/ SubWrite(t)

\* The caller of pool_submitters waits for its two threads, then shuts the pool
\* down with wait = true.
SubmittersShutdown ==
    /\ pc = "spawned"
    /\ \A t \in Submitters : submitters.th[t].pc = "done"
    /\ shutdown' = TRUE
    /\ atShutdown' = InFlight
    /\ pc' = "join"
    /\ UNCHANGED <<config, nsub, cursor, work_queue, fstate, outcome, execCount,
                   worker, completed, ac, yielded, results, exc, rejected, aux>>

\* ---------------------------------------------------------------- old_method, loop
ThreadsUnchanged ==
    UNCHANGED <<config, nsub, shutdown, work_queue, fstate, outcome, execCount,
                worker, completed, ac, yielded, results, exc, rejected, atShutdown,
                submitters>>

\* thread.start(): thread_1, thread_2 in old_method; one per round of the first
\* loop in loop. When the last one is started the caller goes on to the joins.
StartThread ==
    /\ pc = "start"
    /\ thread' = [thread EXCEPT ![cursor + 1] = "started"]
    /\ cursor' = IF cursor + 1 = NThreads THEN 0 ELSE cursor + 1
    /\ pc' = IF cursor + 1 = NThreads THEN "join_threads" ELSE "start"
    /\ ThreadsUnchanged

\* A started thread runs do_something to its end and terminates.
ThreadRun(t) ==
    /\ thread[t] = "started"
    /\ thread' = [thread EXCEPT ![t] = "terminated"]
    /\ UNCHANGED <<pc, cursor>>
    /\ ThreadsUnchanged

\* JoinThread changed to return without waiting for the thread.
JoinThread_nowait ==
    /\ pc = "join_threads"
    /\ cursor' = cursor + 1
    /\ pc' = IF cursor + 1 = NThreads THEN "done" ELSE "join_threads"
    /\ UNCHANGED thread
    /\ ThreadsUnchanged

\* thread.join(), in the order the threads were started: returns when that
\* thread has terminated. After the last join the function returns.
JoinThread ==
    /\ pc = "join_threads"
    /\ thread[cursor + 1] = "terminated"
    /\ cursor' = cursor + 1
    /\ pc' = IF cursor + 1 = NThreads THEN "done" ELSE "join_threads"
    /\ UNCHANGED thread
    /\ ThreadsUnchanged

\* ---------------------------------------------------------------- specification
CallerStep ==
    \/ CallSubmit
    \/ NewMethodResult
    \/ AcStart
    \/ AcYield
    \/ AcWait
    \/ AcEnd
    \/ MapNext
    \/ ExitWith
    \/ Join
    \/ ApiShutdown
    \/ LateSubmit
    \/ ApiGet
    \/ SubmittersShutdown
    \/ StartThread
    \/ JoinThread

WorkerStep(w) ==
    \/ Dequeue(w)
    \/ SkipCancelled(w)
    \/ Finish(w)
    \/ Terminate(w)

Next ==
    \/ CallerStep
    \/ \E w \in 1..MaxWorkers : WorkerStep(w)
    \/ \E t \in Submitters : SubmitterStep(t)
    \/ \E t \in 1..LoopThreads : ThreadRun(t)

Spec == Init /\ [][Next]_vars

\* The caller thread and every worker thread keep being scheduled.
FairSpec ==
    /\ Spec
    /\ WF_vars(CallerStep)
    /\ \A w \in 1..MaxWorkers : WF_vars(WorkerStep(w))
    /\ \A t \in Submitters : WF_vars(SubmitterStep(t))
    /\ \A t \in 1..LoopThreads : WF_vars(ThreadRun(t))

\* ---------------------------------------------------------------- properties
\* The caller's function has returned (normally or with the error propagating).
Returned == pc \in {"done", "raised"}

\* The expected tag of item i's Outcome, from its argument alone.
ExpectedTag(i) == IF Arg(i) < 0 THEN "fail" ELSE "ok"

Settled(i) == fstate[i] \in {"FINISHED", "CANCELLED_AND_NOTIFIED"}

\* C1: the results executor_map takes from the iterator of tpe.map are the
\* Outcomes of the items in input order, whatever the completion order and the
\* worker count; when it returns normally it has taken one result per item.
C1_MapOrdered ==
    prog = "executor_map" =>
        /\ \A j \in DOMAIN results :
              /\ results[j].idx = j
              /\ results[j].out = do_something_new(items[j])
        /\ pc = "done" => Len(results) = Len(items)

\* C1 witness: executor_map returned all results although the second item
\* completed before the first, and the two results differ.
C1_Witness ==
    /\ prog = "executor_map"
    /\ pc = "done"
    /\ Len(results) >= 2
    /\ completed[1] = 2
    /\ results[1].out # results[2].out

C3_AsCompletedOnce ==
    prog = "loop_new_method" =>
        /\ \A a, b \in DOMAIN yielded : a # b => yielded[a] # yielded[b]
        /\ Range(yielded) \subseteq 1..nsub
        /\ ac.ended => Range(yielded) = 1..nsub /\ Len(yielded) = nsub

\* C3 witness: end-of-sequence after three futures, some of which were done when
\* as_completed was entered and some not.
C3_Witness ==
    /\ ac.ended
    /\ Len(yielded) = 3
    /\ ac.initial # {}
    /\ ac.initial # 1..3

WaitReturned == shutdown /\ wait /\ pc # "join"

\* C5: when shutdown(wait=True) has returned, every item that was queued or in
\* flight when it was called is completed, and nothing is queued or running.
C5_ShutdownWaits ==
    WaitReturned =>
        /\ \A i \in atShutdown : fstate[i] = "FINISHED"
        /\ InFlight = {}
        /\ work_queue = <<>>

\* C5 witness: get_images_threaded has returned; more items than workers were
\* still queued or in flight when it left the with block.
C5_Witness ==
    /\ prog = "get_images_threaded"
    /\ pc = "done"
    /\ Cardinality(atShutdown) = MaxItems
    /\ Cardinality(atShutdown) > max_workers

\* C6: once Shutdown has been called, with wait true or false, no step hands out
\* a submission index, queues an item or creates a future, and every Submit
\* attempted then is refused.
C6_SubmitAfterShutdown ==
    [][ /\ shutdown =>
             /\ nsub' = nsub
             /\ Len(work_queue') <= Len(work_queue)
             /\ \A i \in Idx : fstate'[i] = "PENDING" => fstate[i] = "PENDING"
        /\ (pc = "late_submit" /\ <<pc, rejected, nsub>>' # <<pc, rejected, nsub>>) =>
             /\ rejected' = rejected + 1
             /\ nsub' = nsub ]_vars

\* C6 witness: after Shutdown(wait=false) a Submit was refused while earlier
\* items were still queued or running.
C6_Witness ==
    /\ rejected >= 1
    /\ ~wait
    /\ work_queue # <<>>
    /\ \E w \in 1..max_workers : worker[w].st = "busy"

\* The transitions a future makes.
FutureEdges ==
    {<<"NONE", "PENDING">>, <<"PENDING", "RUNNING">>, <<"RUNNING", "FINISHED">>,
     <<"PENDING", "CANCELLED">>, <<"CANCELLED", "CANCELLED_AND_NOTIFIED">>}

\* C7: a future is created pending and changes state only forward; its Outcome
\* is recorded in the one step that completes it, and a completed future stays
\* completed with the same Outcome.
C7_CompletedOnce ==
    [][ \A i \in Idx :
          /\ fstate'[i] # fstate[i] => <<fstate[i], fstate'[i]>> \in FutureEdges
          /\ fstate[i] = "FINISHED" => fstate'[i] = "FINISHED" /\ outcome'[i] = outcome[i]
          /\ outcome'[i] # outcome[i] => fstate[i] = "RUNNING" /\ fstate'[i] = "FINISHED"
          /\ fstate[i] # "FINISHED" => outcome[i] = NoOutcome ]_vars

\* C7 witness: executor_map has returned on the error of item 1; item 2, complete
\* at that time, is still complete although item 3 was cancelled.
C7_Witness ==
    /\ prog = "executor_map"
    /\ pc = "raised"
    /\ exc = 1
    /\ fstate[2] = "FINISHED" /\ outcome[2].tag = "ok"
    /\ fstate[3] = "CANCELLED_AND_NOTIFIED"

\* C8: an error starts propagating in the caller only in the step that retrieves
\* the Outcome of the item that raised it, never at Submit, at execution or at
\* the retrieval of another item; and every retrieval hands over the recorded
\* Outcome of its future, a failed one as the error.
C8_ErrorAtRetrieval ==
    [][ /\ exc' # exc =>
             /\ exc = 0
             /\ exc' \in 1..nsub
             /\ outcome[exc'].tag = "fail"
             /\ results' = Append(results, [idx |-> exc', out |-> outcome[exc']])
        /\ results' # results =>
             LET r == results'[Len(results')] IN
               /\ results' = Append(results, r)
               /\ fstate[r.idx] = "FINISHED"
               /\ r.out = outcome[r.idx]
               /\ r.out.tag = ExpectedTag(r.idx)
               /\ (r.out.tag = "fail" /\ prog \in SrcProgs) => exc' = r.idx
               /\ r.out.tag = "ok" => exc' = exc ]_vars

\* C8 witness: executor_map; the second item raised and completed first, the
\* first item's result was retrieved without an error, then the second item's
\* retrieval raised.
C8_Witness ==
    /\ prog = "executor_map"
    /\ Len(completed) >= 2 /\ completed[1] = 2
    /\ Len(results) = 2
    /\ results[1].out.tag = "ok"
    /\ results[2].out.tag = "fail"
    /\ exc = 2

\* C9 as stated: as_completed yields the futures in the order they completed.
C9_CompletionOrder ==
    prog = "loop_new_method" =>
        \A a, b \in DOMAIN yielded :
            a < b => Pos(completed, yielded[a]) < Pos(completed, yielded[b])

\* C9 amended: the futures that complete after as_completed was entered are
\* yielded in the order they complete, none skipped, and after all the futures
\* that were complete when it was entered (which come in no particular order).
C9_YieldOrder ==
    prog = "loop_new_method" =>
        \A b \in DOMAIN yielded :
            /\ \A a \in 1..(b - 1) :
                  /\ yielded[b] \in ac.initial => yielded[a] \in ac.initial
                  /\ (yielded[a] \notin ac.initial /\ yielded[b] \notin ac.initial) =>
                        Pos(completed, yielded[a]) < Pos(completed, yielded[b])
            /\ yielded[b] \notin ac.initial =>
                  \A f \in Range(completed) :
                      Pos(completed, f) < Pos(completed, yielded[b]) =>
                          f \in {yielded[a] : a \in 1..(b - 1)}

\* C9 witness: three futures, none complete when as_completed was entered, were
\* yielded in their completion order, which is not the submission order.
C9_Witness ==
    /\ prog = "loop_new_method"
    /\ ac.initial = {}
    /\ Len(yielded) = 3
    /\ yielded = completed
    /\ yielded # <<1, 2, 3>>

\* C10: retrieving a future's Outcome again gives the same Outcome, and no
\* retrieval runs the work: a retrieved item has been executed exactly once.
C10_GetIdempotent ==
    /\ \A a, b \in DOMAIN results :
          results[a].idx = results[b].idx => results[a].out = results[b].out
    /\ \A a \in DOMAIN results : execCount[results[a].idx] = 1

\* C10 witness: every future of pool_api was retrieved twice, a failed one
\* among them.
C10_Witness ==
    /\ prog = "pool_api"
    /\ pc = "done"
    /\ nsub >= 2
    /\ Len(results) = 2 * nsub
    /\ results[1].idx = results[2].idx
    /\ \E a \in DOMAIN results : results[a].out.tag = "fail"

\* Every worker of the pool is running an item.
AllBusy == \A w \in 1..max_workers : worker[w].st = "busy"

\* C11: on an open pool a caller that is about to submit can always do so,
\* whatever the workers are doing and however long the queue is; the step hands
\* out the next index with a pending future at the tail of the queue, and no
\* submission is refused or dropped: a pending item is in the queue.
C11_SubmitNeverBlocks ==
    /\ [](pc = "submit" => ~shutdown /\ ENABLED CallSubmit)
    /\ [](~shutdown => rejected = 0)
    /\ [](\A i \in 1..nsub : fstate[i] = "PENDING" => i \in Range(work_queue))
    /\ [][nsub' # nsub =>
             /\ nsub' = nsub + 1
             /\ fstate'[nsub'] = "PENDING"
             /\ work_queue' = Append(work_queue, nsub') ]_vars

\* C11 witness: the caller is about to submit again while every worker is busy
\* and items submitted before are still waiting in the queue.
C11_Witness ==
    /\ pc = "submit"
    /\ nsub >= 2
    /\ AllBusy
    /\ work_queue # <<>>
    /\ ENABLED CallSubmit

\* C12: the submission indices in use are exactly 1..nsub, each handed out once
\* and in increasing order, and each queued once, under every interleaving of
\* the threads that submit: a step that submits takes the next unused index, the
\* queue is strictly increasing, an item is in the queue exactly while no worker
\* has taken it, and no submission of a thread is lost.
C12_IndicesUnique ==
    /\ [](\A a, b \in DOMAIN work_queue : a < b => work_queue[a] < work_queue[b])
    /\ []({i \in Idx : fstate[i] # "NONE"} = 1..nsub)
    /\ [](\A i \in 1..nsub :
            i \in Range(work_queue) <=> fstate[i] \in {"PENDING", "CANCELLED"})
    /\ [](prog = "pool_submitters" =>
            /\ Len(submitters.by) = nsub
            /\ nsub + submitters.th[1].left + submitters.th[2].left = Len(items))
    /\ [][nsub' # nsub =>
             /\ nsub' = nsub + 1
             /\ fstate[nsub'] = "NONE"
             /\ fstate'[nsub'] = "PENDING" ]_vars

\* C12 witness: the two threads of pool_submitters have submitted three items,
\* their submissions interleaved.
C12_Witness ==
    /\ prog = "pool_submitters"
    /\ nsub = 3
    /\ submitters.by = <<1, 2, 1>>
    /\ \A t \in Submitters : submitters.th[t].pc = "done"

\* Every worker thread of the pool has left its loop.
AllExited == \A w \in 1..max_workers : worker[w].st = "exited"

C14_NoWaitDrains ==
    /\ [](~wait => pc # "join")
    /\ (~wait /\ shutdown) ~>
          (AllExited /\ \A i \in 1..nsub : fstate[i] = "FINISHED" /\ execCount[i] = 1)

\* C14 witness: Shutdown(wait=false) has returned, and the caller has gone on,
\* while items are still queued and running.
C14_Witness ==
    /\ ~wait
    /\ shutdown
    /\ pc = "get"
    /\ Cardinality(atShutdown) >= 2
    /\ work_queue # <<>>
    /\ \E w \in 1..max_workers : worker[w].st = "busy"

\* The workers that are running item i.
RunningOn(i) == {w \in 1..max_workers : worker[w].st = "busy" /\ worker[w].item = i}

\* C15: under every interleaving of the workers an item is taken by one worker
\* only and run once: two busy workers never hold the same item, a running item
\* is held by exactly one worker and is no longer in the queue, and no item's
\* work function is ever started twice.
C15_OneWorkerPerItem ==
    /\ \A i \in Idx :
          /\ execCount[i] <= 1
          /\ Cardinality(RunningOn(i)) = (IF fstate[i] = "RUNNING" THEN 1 ELSE 0)
          /\ fstate[i] \in {"RUNNING", "FINISHED"} => execCount[i] = 1
    /\ \A w \in 1..max_workers :
          worker[w].st = "busy" => worker[w].item \notin Range(work_queue)

\* C15 witness: get_images_threaded with two workers, each running a different
\* URL's download while a third waits.
C15_Witness ==
    /\ prog = "get_images_threaded"
    /\ max_workers = 2
    /\ worker[1].st = "busy" /\ worker[2].st = "busy"
    /\ worker[1].item # worker[2].item
    /\ work_queue = <<3>>

\* An item's work function has been started.
Started(i) == execCount[i] >= 1

\* C16: the queue holds the waiting items in submission order and the workers
\* take them from its head: no item is started while an item submitted before
\* it is still waiting.
C16_FifoDequeue ==
    /\ [](\A a, b \in DOMAIN work_queue : a < b => work_queue[a] < work_queue[b])
    /\ [](\A i, j \in 1..nsub : (i < j /\ Started(j)) => fstate[i] # "PENDING")
    /\ [][\A i \in Idx :
            (Started(i)' /\ ~Started(i)) =>
                /\ work_queue # <<>> /\ i = Head(work_queue)
                /\ \A j \in 1..(i - 1) : Started(j) \/ fstate[j] # "PENDING" ]_vars

\* C16 witness: executor_map with two workers; items 1 and 2 were started, in
\* that order, item 2 has completed first and item 3 is still waiting.
C16_Witness ==
    /\ prog = "executor_map"
    /\ fstate[1] = "RUNNING"
    /\ fstate[2] = "FINISHED"
    /\ fstate[3] = "PENDING"
    /\ work_queue = <<3>>

\* C17: a worker leaves its loop only from idle, when the pool is shut down and
\* the queue is empty; and under fair scheduling, once the pool is shut down
\* every worker eventually has left.
C17_WorkersTerminate ==
    /\ [][\A w \in 1..MaxWorkers :
            (worker'[w].st = "exited" /\ worker[w].st # "exited") =>
                /\ shutdown
                /\ work_queue = <<>>
                /\ worker[w].st = "idle" ]_vars
    /\ [](\A w \in 1..max_workers : worker[w].st = "exited" => work_queue = <<>>)
    /\ shutdown ~> AllExited

\* C17 witness: new_method; both workers have left after the shutdown, with the
\* two items completed.
C17_Witness ==
    /\ prog = "new_method"
    /\ max_workers = 2
    /\ shutdown
    /\ AllExited
    /\ atShutdown # {}
    /\ fstate[1] = "FINISHED" /\ fstate[2] = "FINISHED"

\* C18: never more items are running than the pool has workers, each on its own
\* worker; and whenever an item waits in the queue, a worker that is idle can
\* take the item at the head at once: an item is kept waiting only by the items
\* before it in the queue or by all workers being busy.
C18_BoundedParallelism ==
    /\ Cardinality({i \in Idx : fstate[i] = "RUNNING"}) <= max_workers
    /\ Cardinality({i \in Idx : fstate[i] = "RUNNING"}) =
          Cardinality({w \in 1..max_workers : worker[w].st = "busy"})
    /\ \A w \in 1..max_workers :
          (work_queue # <<>> /\ worker[w].st = "idle") =>
              ENABLED (Dequeue(w) \/ SkipCancelled(w))
    /\ (work_queue # <<>> /\ ~ENABLED (\E w \in 1..MaxWorkers : Dequeue(w) \/ SkipCancelled(w)))
          => \A w \in 1..max_workers : worker[w].st \in {"busy"}

\* C18 witness: loop_new_method with two workers, both busy, and the third item
\* waiting in the queue.
C18_Witness ==
    /\ prog = "loop_new_method"
    /\ max_workers = 2
    /\ AllBusy
    /\ Cardinality({i \in Idx : fstate[i] = "RUNNING"}) = 2
    /\ work_queue = <<3>>

\* The threads old_method or loop creates.
Threads == 1..NThreads

\* C19: old_method and loop have started every one of their threads (2 and 10)
\* and no other when they begin to join, they have returned only when every
\* thread has terminated, in whatever order the threads finish, and under fair
\* scheduling they return.
C19_StartAllThenJoinAll ==
    /\ [](prog \in ThreadProgs =>
            /\ NThreads = (IF prog = "old_method" THEN 2 ELSE 10)
            /\ \A t \in DOMAIN thread : t \notin Threads => thread[t] = "new"
            /\ pc = "start" => \A t \in Threads : (thread[t] # "new") <=> (t <= cursor)
            /\ pc \in {"join_threads", "done"} => \A t \in Threads : thread[t] # "new"
            /\ pc = "join_threads" => \A t \in 1..cursor : thread[t] = "terminated"
            /\ pc = "done" => \A t \in Threads : thread[t] = "terminated")
    /\ <>[](prog \in ThreadProgs => pc = "done")

\* C19 witness: loop is blocked in its first join, on a thread that still runs,
\* while the thread started last has already terminated.
C19_Witness ==
    /\ prog = "loop"
    /\ pc = "join_threads"
    /\ cursor = 0
    /\ thread[1] = "started"
    /\ thread[LoopThreads] = "terminated"

\* C20: get_images_threaded never raises and takes no result; when it has
\* returned, download_image has run exactly once for every URL, each future is
\* completed with the Outcome of its own download, failed or not, and none was
\* cancelled.
C20_ThreadedRunsAll ==
    prog = "get_images_threaded" =>
        /\ pc # "raised" /\ exc = 0 /\ results = <<>>
        /\ \A i \in Idx : fstate[i] \notin {"CANCELLED", "CANCELLED_AND_NOTIFIED"}
        /\ pc = "done" =>
              /\ nsub = Len(items)
              /\ \A i \in 1..Len(items) :
                    /\ execCount[i] = 1
                    /\ fstate[i] = "FINISHED"
                    /\ outcome[i].tag = ExpectedTag(i)

\* C20 witness: get_images_threaded returned normally on a single worker
\* although the first download raised; the downloads after it succeeded.
C20_Witness ==
    /\ prog = "get_images_threaded"
    /\ pc = "done"
    /\ max_workers = 1
    /\ Len(items) = 3
    /\ outcome[1].tag = "fail"
    /\ outcome[2].tag = "ok" /\ outcome[3].tag = "ok"

====
